---- MODULE Spec2Model ----
(***************************************************************************)
(* Model of the POST /combine endpoint of src/main.py: request-body        *)
(* validation (pydantic models), the item-count check, the sequential      *)
(* fetch/resize/render loop, grid layout and composition, and the final    *)
(* letterboxing onto the 2560x1408 target canvas.                          *)
(*                                                                         *)
(* Images are modelled by their size and the URL their bytes came from;    *)
(* caption bitmaps by their size and the text they show.  Pixel contents,  *)
(* font rasterisation and PNG encoding are outside the model.              *)
(***************************************************************************)
EXTENDS Integers, Sequences, FiniteSets

\* ---------------------------------------------------------------- constants
TARGET_WIDTH == 2560
TARGET_HEIGHT == 1408
padding == 24
text_to_image_spacing == 8
border_width == 2
max_image_edge == 1024

\* ------------------------------------------------------------------- bounds
\* Longest request body enumerated (one more than the handler accepts, so
\* that the ">4" rejection happens).
MaxItems == 5

\* ------------------------------------------------------------------- inputs
UrlA == [scheme |-> "http", rest |-> "a.example/1.png"]
UrlB == [scheme |-> "https", rest |-> "b.example/2.png"]
UrlC == [scheme |-> "ftp", rest |-> "c.example/3.png"]
NoUrl == [scheme |-> "", rest |-> ""]

\* Captions are sequences of characters; " " is the whitespace character.
TextHi == <<"H", "i">>
TextBlank == <<" ">>
TextEmpty == <<>>

\* The item kinds a request body is built from: a well-formed item, an item
\* with a whitespace-only caption, an item with a non-HTTP URL, and an item
\* with the empty caption.
Items ==
    { [imageUrl |-> UrlA, text |-> TextHi],
      [imageUrl |-> UrlB, text |-> TextBlank],
      [imageUrl |-> UrlC, text |-> TextHi],
      [imageUrl |-> UrlA, text |-> TextEmpty] }

Requests == UNION { [1..n -> Items] : n \in 0..MaxItems }

\* Sizes <<width, height>> of the images the remote servers may return:
\* small landscape, large landscape, exactly at the edge limit, and two
\* extremely wide strips.
ImageSizes == { <<200, 100>>, <<3000, 1500>>, <<1024, 1024>>, <<100, 300>>,
                <<2000, 1>>, <<4096, 1>> }

\* Bounding boxes <<width, height>> the font may give a non-empty caption:
\* a multi-line caption and a very long single-line caption.
CaptionSizes == { <<1232, 328>>, <<140000, 45>> }

\* ------------------------------------------------------------------ helpers
Max(S) == CHOOSE m \in S : \A x \in S : x <= m

Min2(a, b) == IF a <= b THEN a ELSE b

Max2(a, b) == IF a >= b THEN a ELSE b

IsSpace(c) == c = " "

RECURSIVE LStrip(_)
LStrip(s) == IF s # <<>> /\ IsSpace(Head(s)) THEN LStrip(Tail(s)) ELSE s

RECURSIVE RStrip(_)
RStrip(s) ==
    IF s # <<>> /\ IsSpace(s[Len(s)]) THEN RStrip(SubSeq(s, 1, Len(s) - 1)) ELSE s

\* str.strip()
Strip(s) == RStrip(LStrip(s))

\* AnyHttpUrl: only the http and https schemes are accepted.
AnyHttpUrl(url) == url.scheme \in {"http", "https"}

\* Variant of ImageTextItem without the min_length constraint on text.
ImageTextItemNoMinLength(item) == AnyHttpUrl(item.imageUrl)

\* ImageTextItem: imageUrl is an AnyHttpUrl, text has min_length=1 (the
\* length of the raw string, not of the stripped one).
ImageTextItem(item) == AnyHttpUrl(item.imageUrl) /\ Len(item.text) >= 1

\* CombineRequest: a list of ImageTextItem, of any length.
CombineRequest(body) == \A i \in 1..Len(body) : ImageTextItem(body[i])

\* Python round(n / d) for n >= 0, d > 0: nearest integer, ties to even.
Round(n, d) ==
    LET q == n \div d
        r == n % d
    IN  IF 2 * r < d THEN q
        ELSE IF 2 * r > d THEN q + 1
        ELSE IF q % 2 = 0 THEN q ELSE q + 1

\* ImageOps.contain(image, (edge, edge)): the size the image is resized to.
\* The image is fitted to the box in both directions, so a small image grows.
Contain(size, edge) ==
    LET w == size[1]
        h == size[2]
    IN  IF w = h THEN <<edge, edge>>
        ELSE IF w > h THEN <<edge, Round(h * edge, w)>>
        ELSE <<Round(w * edge, h), edge>>

\* Image.resize raises ValueError when a requested dimension is below 1.
ResizeFails(size) == size[1] < 1 \/ size[2] < 1

\* Variant of CountOk with the upper limit off by one.
CountOkOffByOne(n) == 1 <= n /\ n <= 5

\* The request handler only serves bodies with 1 to 4 items.
CountOk(n) == 1 <= n /\ n <= 4

\* ----------------------------------------------------------------- state
VARIABLES
    items,      \* payload.items: the request body's list of items
    pc,         \* "received" | "handler" | "fetch" | "done"
    fetched,    \* number of GET requests issued by fetch_image so far
    results,    \* what each fetch_image call so far returned or raised
    blocks,     \* the handler's list of blocks
    layout,     \* cell and canvas measurements of the composed grid
    drawn,      \* per block: where its caption, image and borders were drawn
    out,        \* the finalizer's scaled size, paste offsets and final canvas
    response    \* [status, detail, media]; status 0 while none was sent

vars == <<items, pc, fetched, results, blocks, layout, drawn, out, response>>

NoResponse == [status |-> 0, detail |-> [msg |-> "", url |-> NoUrl], media |-> ""]

NoLayout ==
    [cell_width |-> 0, cell_height |-> 0, cols |-> 0, rows |-> 0,
     canvas_width |-> 0, canvas_height |-> 0]

NoOut ==
    [rescaled |-> FALSE, scaled_width |-> 0, scaled_height |-> 0,
     paste_x |-> 0, paste_y |-> 0, width |-> 0, height |-> 0]

Init ==
    /\ items \in Requests
    /\ pc = "received"
    /\ fetched = 0
    /\ results = <<>>
    /\ blocks = <<>>
    /\ layout = NoLayout
    /\ drawn = <<>>
    /\ out = NoOut
    /\ response = NoResponse

\* --------------------------------------------------------------- responses
\* FastAPI answers a body that fails the pydantic models with 422.
ValidationErrorResponse ==
    [status |-> 422, detail |-> [msg |-> "validation error", url |-> NoUrl],
     media |-> "application/json"]

CountErrorResponse ==
    [status |-> 400,
     detail |-> [msg |-> "Provide between 1 and 4 items.", url |-> NoUrl],
     media |-> "application/json"]

\* Variant of DownloadErrorResponse whose detail leaves the URL out.
DownloadErrorUnnamed(url) ==
    [status |-> 400, detail |-> [msg |-> "Failed to download image: ", url |-> NoUrl],
     media |-> "application/json"]

DownloadErrorResponse(url) ==
    [status |-> 400, detail |-> [msg |-> "Failed to download image: ", url |-> url],
     media |-> "application/json"]

DecodeErrorResponse(url) ==
    [status |-> 400, detail |-> [msg |-> "Invalid image content at: ", url |-> url],
     media |-> "application/json"]

\* An exception no handler catches: Internal Server Error.
ServerErrorResponse ==
    [status |-> 500, detail |-> [msg |-> "Internal Server Error", url |-> NoUrl],
     media |-> "text/plain"]

PngResponse ==
    [status |-> 200, detail |-> [msg |-> "", url |-> NoUrl], media |-> "image/png"]

\* ------------------------------------------------------- request validation
\* The framework parses the body into CombineRequest before calling the
\* handler; a body that does not fit the models never reaches it.
ParseRequest ==
    /\ pc = "received"
    /\ IF CombineRequest(items)
       THEN /\ pc' = "handler"
            /\ response' = response
       ELSE /\ pc' = "done"
            /\ response' = ValidationErrorResponse
    /\ UNCHANGED <<items, fetched, results, blocks, layout, drawn, out>>

\* combine_images, up to the first await: the item-count check.
CombineStart ==
    /\ pc = "handler"
    /\ IF CountOk(Len(items))
       THEN /\ pc' = "fetch"
            /\ response' = response
       ELSE /\ pc' = "done"
            /\ response' = CountErrorResponse
    /\ blocks' = <<>>
    /\ UNCHANGED <<items, fetched, results, layout, drawn, out>>

\* ------------------------------------------------------------- fetch loop
\* The item the loop is at: items are taken in list order, one per GET.
CurrentItem == items[fetched + 1]

\* fetch_image on success: the decoded image, converted to RGBA.  "source"
\* stands for the pixel content, which is whatever the URL served.
DecodedImage(url, size) ==
    [result |-> "ok", width |-> size[1], height |-> size[2], source |-> url]

\* fetch_image raising: no image; "source" is the URL that was asked for.
FetchFailure(kind, url) ==
    [result |-> kind, width |-> 0, height |-> 0, source |-> url]

\* ImageOps.contain(image, (max_image_edge, max_image_edge))
Resized(image) ==
    LET size == Contain(<<image.width, image.height>>, max_image_edge)
    IN  [width |-> size[1], height |-> size[2], source |-> image.source]

\* render_text_image: a 1x1 transparent placeholder for a caption that is
\* empty after strip(), otherwise a bitmap of the size of the text's bounding
\* box (bbox is what the font reports for the stripped text).
RenderTextImage(text, bbox) ==
    IF Strip(text) = <<>>
    THEN [width |-> 1, height |-> 1, text |-> <<>>]
    ELSE [width |-> bbox[1], height |-> bbox[2], text |-> Strip(text)]

Block(resized, text_image) ==
    [image |-> resized, text_image |-> text_image,
     text_width |-> text_image.width, text_height |-> text_image.height]

\* Variant of AppendBlock that inserts at the front.
PrependBlock(bs, b) == <<b>> \o bs

\* blocks.append(...)
AppendBlock(bs, b) == Append(bs, b)

\* client.get raises (network failure, timeout) or raise_for_status rejects
\* the status code: HTTPException 400 naming the URL; the handler ends.
FetchDownloadError ==
    /\ pc = "fetch"
    /\ fetched < Len(items)
    /\ fetched' = fetched + 1
    /\ pc' = "done"
    /\ response' = DownloadErrorResponse(CurrentItem.imageUrl)
    /\ results' = Append(results, FetchFailure("download_error", CurrentItem.imageUrl))
    /\ UNCHANGED <<items, blocks, layout, drawn, out>>

\* The body is no image PIL can open and load: HTTPException 400 naming the
\* URL; the handler ends.
FetchDecodeError ==
    /\ pc = "fetch"
    /\ fetched < Len(items)
    /\ fetched' = fetched + 1
    /\ pc' = "done"
    /\ response' = DecodeErrorResponse(CurrentItem.imageUrl)
    /\ results' = Append(results, FetchFailure("decode_error", CurrentItem.imageUrl))
    /\ UNCHANGED <<items, blocks, layout, drawn, out>>

\* One iteration of the loop whose download and decode succeed: resize,
\* render the caption, append the block.  A resize to an empty size raises
\* ValueError, which nothing catches.
FetchOk ==
    /\ pc = "fetch"
    /\ fetched < Len(items)
    /\ \E size \in ImageSizes, bbox \in CaptionSizes :
          LET image == DecodedImage(CurrentItem.imageUrl, size)
              resized == Resized(image)
              text_image == RenderTextImage(Strip(CurrentItem.text), bbox)
          IN  /\ fetched' = fetched + 1
              /\ results' = Append(results, image)
              /\ IF ResizeFails(<<resized.width, resized.height>>)
                 THEN /\ pc' = "done"
                      /\ response' = ServerErrorResponse
                      /\ blocks' = blocks
                 ELSE /\ pc' = pc
                      /\ response' = response
                      /\ blocks' = AppendBlock(blocks, Block(resized, text_image))
    /\ UNCHANGED <<items, layout, drawn, out>>

\* ------------------------------------------------------------------ layout
ContentWidth(block) == Max2(block.image.width, block.text_width)

MaxContentWidth(bs) == Max({ ContentWidth(bs[i]) : i \in 1..Len(bs) })

MaxImageHeight(bs) == Max({ bs[i].image.height : i \in 1..Len(bs) })

MaxTextHeight(bs) == Max({ bs[i].text_height : i \in 1..Len(bs) })

CellWidth(bs) == MaxContentWidth(bs) + 2 * padding

\* Variant of CellHeight that forgets the caption-to-image gap.
CellHeightWithoutGap(bs) == MaxImageHeight(bs) + MaxTextHeight(bs) + 2 * padding

CellHeight(bs) ==
    MaxImageHeight(bs) + MaxTextHeight(bs) + text_to_image_spacing + 2 * padding

\* Variant of GridShape that only ever grows sideways.
GridShapeSingleRow(num_items) == IF num_items = 1 THEN <<1, 1>> ELSE <<2, 1>>

\* <<cols, rows>> for num_items blocks
GridShape(num_items) ==
    IF num_items = 1 THEN <<1, 1>>
    ELSE IF num_items = 2 THEN <<2, 1>>
    ELSE <<2, 2>>

\* index is the 0-based position of the block, as enumerate() gives it.
Row(index) == index \div 2

Col(index) == index % 2

\* draw.rectangle([x0, y0, x1, y1]) of the i-th border outline of a cell.
BorderRect(x_offset, y_offset, cell_width, cell_height, i) ==
    [x0 |-> x_offset + i, y0 |-> y_offset + i,
     x1 |-> x_offset + cell_width - 1 - i, y1 |-> y_offset + cell_height - 1 - i]

\* Variant of BorderInsets drawing one outline too many.
BorderInsetsOneTooMany == 0..border_width

\* range(border_width)
BorderInsets == 0..(border_width - 1)

\* The body of the composition loop for one block: where the caption and the
\* image are pasted and which outlines are drawn.
PlaceBlock(index, block, cell_width, cell_height) ==
    LET x_offset == Col(index) * cell_width
        y_offset == Row(index) * cell_height
        block_width == ContentWidth(block) + 2 * padding
        block_height ==
            block.text_height + text_to_image_spacing + block.image.height
                + 2 * padding
        horizontal_shift == (cell_width - block_width) \div 2
        vertical_shift == (cell_height - block_height) \div 2
        block_left == x_offset + horizontal_shift
        block_top == y_offset + vertical_shift
        text_x == block_left + (block_width - block.text_width) \div 2
        text_y == block_top + padding
        image_x == block_left + (block_width - block.image.width) \div 2
        image_y == text_y + block.text_height + text_to_image_spacing
    IN  [index |-> index,
         row |-> Row(index), col |-> Col(index),
         x_offset |-> x_offset, y_offset |-> y_offset,
         horizontal_shift |-> horizontal_shift,
         vertical_shift |-> vertical_shift,
         text |-> [x |-> text_x, y |-> text_y,
                   width |-> block.text_image.width,
                   height |-> block.text_image.height,
                   content |-> block.text_image.text],
         image |-> [x |-> image_x, y |-> image_y,
                    width |-> block.image.width,
                    height |-> block.image.height,
                    content |-> block.image.source],
         borders |-> { BorderRect(x_offset, y_offset, cell_width, cell_height, i) :
                         i \in BorderInsets }]

\* ---------------------------------------------------------------- finalizer
\* scale_factor = min(TARGET_WIDTH / width, TARGET_HEIGHT / height), as the
\* fraction num/den: the width limits when TARGET_WIDTH/width is the smaller.
ScaleFactor(width, height) ==
    IF TARGET_WIDTH * height <= TARGET_HEIGHT * width
    THEN [num |-> TARGET_WIDTH, den |-> width]
    ELSE [num |-> TARGET_HEIGHT, den |-> height]

\* int(dim * scale_factor) in double precision.  When dim * scale_factor is
\* not a whole number the result is its floor.  When it is a whole number q
\* the rounded quotient and product may land just below q, and int() then
\* gives q - 1: both outcomes are allowed.
IntOfScaled(dim, width, height) ==
    LET f == ScaleFactor(width, height)
        n == dim * f.num
        q == n \div f.den
    IN  IF n % f.den = 0 THEN {q - 1, q} ELSE {q}

\* max(1, min(target, int(dim * scale_factor)))
ScaledDim(target, truncated) == Max2(1, Min2(target, truncated))

\* Variant of PasteOffset that does not halve the free space.
PasteOffsetNotHalved(target, scaled) == target - scaled

\* (target - scaled) // 2
PasteOffset(target, scaled) == (target - scaled) \div 2

\* Variant of Finalize that returns the scaled canvas itself instead of
\* pasting it onto a target-size canvas.
FinalizeWithoutLetterbox(width, height, tw, th) ==
    IF <<width, height>> # <<TARGET_WIDTH, TARGET_HEIGHT>>
    THEN [rescaled |-> TRUE,
          scaled_width |-> ScaledDim(TARGET_WIDTH, tw),
          scaled_height |-> ScaledDim(TARGET_HEIGHT, th),
          paste_x |-> 0, paste_y |-> 0,
          width |-> ScaledDim(TARGET_WIDTH, tw),
          height |-> ScaledDim(TARGET_HEIGHT, th)]
    ELSE [rescaled |-> FALSE, scaled_width |-> 0, scaled_height |-> 0,
          paste_x |-> 0, paste_y |-> 0, width |-> width, height |-> height]

\* The canvas is replaced by a target-size canvas holding the
\* scaled copy unless it already has the target size.  tw and th are the
\* values of int(canvas.width * scale_factor), int(canvas.height * scale_factor).
Finalize(width, height, tw, th) ==
    IF <<width, height>> # <<TARGET_WIDTH, TARGET_HEIGHT>>
    THEN LET scaled_width == ScaledDim(TARGET_WIDTH, tw)
             scaled_height == ScaledDim(TARGET_HEIGHT, th)
         IN  [rescaled |-> TRUE,
              scaled_width |-> scaled_width, scaled_height |-> scaled_height,
              paste_x |-> PasteOffset(TARGET_WIDTH, scaled_width),
              paste_y |-> PasteOffset(TARGET_HEIGHT, scaled_height),
              width |-> TARGET_WIDTH, height |-> TARGET_HEIGHT]
    ELSE [rescaled |-> FALSE, scaled_width |-> 0, scaled_height |-> 0,
          paste_x |-> 0, paste_y |-> 0, width |-> width, height |-> height]

\* The rest of the handler after the loop: measure, lay out, paste, draw the
\* borders, letterbox, encode, respond.
Compose ==
    /\ pc = "fetch"
    /\ fetched = Len(items)
    /\ LET cell_width == CellWidth(blocks)
           cell_height == CellHeight(blocks)
           num_items == Len(blocks)
           cols == GridShape(num_items)[1]
           rows == GridShape(num_items)[2]
           canvas_width == cell_width * cols
           canvas_height == cell_height * rows
       IN  /\ layout' = [cell_width |-> cell_width, cell_height |-> cell_height,
                         cols |-> cols, rows |-> rows,
                         canvas_width |-> canvas_width,
                         canvas_height |-> canvas_height]
           /\ drawn' = [i \in 1..num_items |->
                           PlaceBlock(i - 1, blocks[i], cell_width, cell_height)]
           /\ \E tw \in IntOfScaled(canvas_width, canvas_width, canvas_height),
                 th \in IntOfScaled(canvas_height, canvas_width, canvas_height) :
                 out' = Finalize(canvas_width, canvas_height, tw, th)
    /\ pc' = "done"
    /\ response' = PngResponse
    /\ UNCHANGED <<items, fetched, results, blocks>>

Next ==
    \/ ParseRequest
    \/ CombineStart
    \/ FetchDownloadError
    \/ FetchDecodeError
    \/ FetchOk
    \/ Compose

Spec == Init /\ [][Next]_vars

\* ================================================================== claims
Served == pc = "done" /\ response.status = 200

AllFetchesOk == \A i \in 1..Len(results) : results[i].result = "ok"

\* C1: for a request of 1 to 4 items whose fetches and decodes all succeed,
\* the canvas that is encoded has size exactly 2560x1408, whatever the sizes
\* of the images and captions.
C1_OutputIsTargetSize ==
    Served =>
        /\ Len(items) \in 1..4
        /\ AllFetchesOk
        /\ out.width = TARGET_WIDTH
        /\ out.height = TARGET_HEIGHT

\* A served request whose composed grid is wider than the target and of a
\* different aspect ratio.
C1_Witness ==
    /\ Served
    /\ layout.canvas_width > TARGET_WIDTH
    /\ layout.canvas_height < TARGET_HEIGHT
    /\ out.width = TARGET_WIDTH

HasBlankCaption == \E i \in 1..Len(items) : Strip(items[i].text) = <<>>

HasEmptyCaption == \E i \in 1..Len(items) : items[i].text = <<>>

FetchFailed == \E i \in 1..Len(results) : results[i].result # "ok"

\* C4: if the fetch of an item fails or its body is no image, the request
\* ends with HTTP 400 whose detail names that item's URL, and no PNG is
\* produced, however many other items succeeded.
C4_FetchFailureIs400NamingUrl ==
    \A i \in 1..Len(results) :
        results[i].result # "ok" =>
            /\ pc = "done"
            /\ response.status = 400
            /\ response.detail.url = items[i].imageUrl
            /\ response.detail.url = results[i].source
            /\ response.media # "image/png"
            /\ out = NoOut
            /\ layout = NoLayout
            /\ drawn = <<>>

\* The third item's download fails after two items were fetched and turned
\* into blocks.
C4_Witness ==
    /\ Len(results) = 3
    /\ results[3].result = "download_error"
    /\ Len(blocks) = 2
    /\ response.status = 400

\* C5: after the resize step every image has width and height at most 1024,
\* and an image whose width and height were both at most 1024 keeps its
\* original width and height.
C5_ResizeOnlyDownscales ==
    \A i \in 1..Len(blocks) :
        /\ blocks[i].image.width <= max_image_edge
        /\ blocks[i].image.height <= max_image_edge
        /\ (results[i].width <= max_image_edge /\ results[i].height <= max_image_edge)
              => /\ blocks[i].image.width = results[i].width
                 /\ blocks[i].image.height = results[i].height

\* C6: the grid is 1x1 for 1 item, 2 columns x 1 row for 2 items and 2x2
\* for 3 or 4 items; the item at position i sits in the cell at row i div 2,
\* column i mod 2, whose origin is (column * cellWidth, row * cellHeight);
\* the canvas is cellWidth*cols by cellHeight*rows, so every item's cell
\* lies inside the canvas and no two items share a cell.
C6_GridShapeAndCells ==
    Served =>
        LET n == Len(items)
        IN  /\ n = 1 => layout.cols = 1 /\ layout.rows = 1
            /\ n = 2 => layout.cols = 2 /\ layout.rows = 1
            /\ n \in {3, 4} => layout.cols = 2 /\ layout.rows = 2
            /\ layout.canvas_width = layout.cell_width * layout.cols
            /\ layout.canvas_height = layout.cell_height * layout.rows
            /\ DOMAIN drawn = 1..n
            /\ \A i \in 1..n :
                  /\ drawn[i].row = (i - 1) \div 2
                  /\ drawn[i].col = (i - 1) % 2
                  /\ drawn[i].x_offset = drawn[i].col * layout.cell_width
                  /\ drawn[i].y_offset = drawn[i].row * layout.cell_height
                  /\ drawn[i].x_offset >= 0
                  /\ drawn[i].y_offset >= 0
                  /\ drawn[i].x_offset + layout.cell_width <= layout.canvas_width
                  /\ drawn[i].y_offset + layout.cell_height <= layout.canvas_height
            /\ \A i, j \in 1..n :
                  i # j => <<drawn[i].row, drawn[i].col>> # <<drawn[j].row, drawn[j].col>>

\* A served four-item request: the fourth item sits in row 1, column 1.
C6_Witness ==
    /\ Served
    /\ Len(items) = 4
    /\ drawn[4].row = 1
    /\ drawn[4].col = 1

CanvasIsTarget ==
    /\ layout.canvas_width = TARGET_WIDTH
    /\ layout.canvas_height = TARGET_HEIGHT

\* s is dim scaled by min(2560/W, 1408/H), up to the truncation to an
\* integer and the clamp to at least 1.
ScaledBy(s, dim) ==
    LET W == layout.canvas_width
        H == layout.canvas_height
        widthLimits == TARGET_WIDTH * H <= TARGET_HEIGHT * W
        num == IF widthLimits THEN TARGET_WIDTH ELSE TARGET_HEIGHT
        den == IF widthLimits THEN W ELSE H
    IN  \/ s * den <= dim * num /\ dim * num <= (s + 1) * den
        \/ s = 1 /\ dim * num <= den

\* C7: a composed canvas W x H other than 2560x1408 is scaled by
\* min(2560/W, 1408/H) to (w, h) with 1 <= w <= 2560 and 1 <= h <= 1408 and
\* pasted at ((2560 - w) div 2, (1408 - h) div 2): the offsets are not
\* negative, the scaled canvas lies inside the target, and opposite margins
\* differ by at most one pixel.  A canvas of exactly 2560x1408 is used as is.
C7_LetterboxCentred ==
    Served =>
        IF CanvasIsTarget
        THEN /\ ~out.rescaled
             /\ out.width = layout.canvas_width
             /\ out.height = layout.canvas_height
        ELSE LET w == out.scaled_width
                 h == out.scaled_height
                 right == TARGET_WIDTH - out.paste_x - w
                 bottom == TARGET_HEIGHT - out.paste_y - h
             IN  /\ out.rescaled
                 /\ 1 <= w /\ w <= TARGET_WIDTH
                 /\ 1 <= h /\ h <= TARGET_HEIGHT
                 /\ ScaledBy(w, layout.canvas_width)
                 /\ ScaledBy(h, layout.canvas_height)
                 /\ out.paste_x = (TARGET_WIDTH - w) \div 2
                 /\ out.paste_y = (TARGET_HEIGHT - h) \div 2
                 /\ out.paste_x >= 0 /\ out.paste_y >= 0
                 /\ right >= 0 /\ bottom >= 0
                 /\ right - out.paste_x \in {0, 1}
                 /\ bottom - out.paste_y \in {0, 1}

\* A rescaled canvas whose free height is odd, so that the top and bottom
\* margins differ by one pixel.
C7_Witness ==
    /\ Served
    /\ out.rescaled
    /\ out.scaled_width = TARGET_WIDTH
    /\ (TARGET_HEIGHT - out.scaled_height) % 2 = 1
    /\ out.paste_y > 0

\* C8: layout and composition start only after every item was fetched,
\* decoded and rendered; block i holds the image and caption of item i;
\* items are fetched one at a time in list order, so after a failure no
\* later item is fetched and the error names the first failing item's URL.
C8_SequentialByPosition ==
    /\ fetched = Len(results)
    /\ fetched <= Len(items)
    /\ Len(blocks) <= fetched
    /\ \A i \in 1..Len(results) :
          /\ results[i].source = items[i].imageUrl
          /\ i < Len(results) => results[i].result = "ok"
    /\ \A i \in 1..Len(blocks) :
          /\ blocks[i].image.source = items[i].imageUrl
          /\ blocks[i].text_image.text = Strip(items[i].text)
    /\ (layout # NoLayout \/ drawn # <<>> \/ out # NoOut \/ response.status = 200) =>
          /\ AllFetchesOk
          /\ Len(blocks) = Len(items)
          /\ fetched = Len(items)
          /\ \A i \in 1..Len(items) :
                /\ drawn[i].image.content = items[i].imageUrl
                /\ drawn[i].text.content = Strip(items[i].text)
    /\ FetchFailed =>
          /\ pc = "done"
          /\ results[fetched].result # "ok"
          /\ Len(blocks) = fetched - 1
          /\ response.detail.url = items[fetched].imageUrl

\* The second of three items fails to decode: one block exists, the third
\* item was never fetched, and the error names the second item's URL.
C8_Witness ==
    /\ Len(items) = 3
    /\ items[1].imageUrl # items[2].imageUrl
    /\ fetched = 2
    /\ results[2].result = "decode_error"
    /\ response.detail.url = items[2].imageUrl

\* C9: every block's centring offsets are non-negative, and its caption and
\* image are pasted inside the block's own cell at least the padding away
\* from every cell edge, the image starting captionHeight + 8 below the
\* caption's top.
C9_ContentInsideCell ==
    Served =>
        /\ layout.cell_width = MaxContentWidth(blocks) + 48
        /\ layout.cell_height = MaxImageHeight(blocks) + MaxTextHeight(blocks) + 8 + 48
        /\ \A i \in 1..Len(blocks) :
              LET d == drawn[i]
                  left == d.x_offset + 24
                  top == d.y_offset + 24
                  right == d.x_offset + layout.cell_width - 24
                  bottom == d.y_offset + layout.cell_height - 24
              IN  /\ d.horizontal_shift >= 0
                  /\ d.vertical_shift >= 0
                  /\ d.text.width = blocks[i].text_width
                  /\ d.text.height = blocks[i].text_height
                  /\ d.image.width = blocks[i].image.width
                  /\ d.image.height = blocks[i].image.height
                  /\ left <= d.text.x /\ d.text.x + d.text.width <= right
                  /\ top <= d.text.y /\ d.text.y + d.text.height <= bottom
                  /\ left <= d.image.x /\ d.image.x + d.image.width <= right
                  /\ top <= d.image.y /\ d.image.y + d.image.height <= bottom
                  /\ d.image.y = d.text.y + d.text.height + 8

\* A served request in which some block is smaller than its cell in both
\* directions and is shifted to the cell's centre.
C9_Witness ==
    /\ Served
    /\ \E i \in 1..Len(blocks) :
          /\ drawn[i].horizontal_shift > 0
          /\ drawn[i].vertical_shift > 0
          /\ drawn[i].col = 1

\* The pixels [x0..x1] x [y0..y1] meet the cell at row 1, column 1.
MeetsFourthCell(x0, y0, x1, y1) ==
    /\ x0 <= 2 * layout.cell_width - 1 /\ x1 >= layout.cell_width
    /\ y0 <= 2 * layout.cell_height - 1 /\ y1 >= layout.cell_height

\* C10: each cell holding an item gets exactly two one-pixel outlines, at
\* insets 0 and 1 from the cell's outer edge and inside the cell; with
\* exactly 3 items nothing (caption, image, outline) is drawn inside the
\* fourth cell.
C10_BordersAndBlankCell ==
    Served =>
        /\ \A i \in 1..Len(drawn) :
              LET d == drawn[i]
                  outline(k) ==
                      [x0 |-> d.x_offset + k, y0 |-> d.y_offset + k,
                       x1 |-> d.x_offset + layout.cell_width - 1 - k,
                       y1 |-> d.y_offset + layout.cell_height - 1 - k]
              IN  /\ Cardinality(d.borders) = 2
                  /\ d.borders = {outline(0), outline(1)}
                  /\ \A r \in d.borders :
                        /\ d.x_offset <= r.x0 /\ r.x0 < r.x1
                        /\ r.x1 <= d.x_offset + layout.cell_width - 1
                        /\ d.y_offset <= r.y0 /\ r.y0 < r.y1
                        /\ r.y1 <= d.y_offset + layout.cell_height - 1
        /\ Len(items) = 3 =>
              /\ Len(drawn) = 3
              /\ \A i \in 1..Len(drawn) :
                    LET d == drawn[i]
                    IN  /\ ~MeetsFourthCell(d.text.x, d.text.y,
                                            d.text.x + d.text.width - 1,
                                            d.text.y + d.text.height - 1)
                        /\ ~MeetsFourthCell(d.image.x, d.image.y,
                                            d.image.x + d.image.width - 1,
                                            d.image.y + d.image.height - 1)
                        /\ \A r \in d.borders :
                              ~MeetsFourthCell(r.x0, r.y0, r.x1, r.y1)

\* A served three-item request: three bordered cells in a 2x2 grid.
C10_Witness ==
    /\ Served
    /\ Len(items) = 3
    /\ layout.cols = 2
    /\ layout.rows = 2
    /\ \A i \in 1..3 : Cardinality(drawn[i].borders) = 2

====
